---- MODULE Spec2Model ----
(***************************************************************************)
(* ScreenTone (src/main.py): one slider per display, debounced brightness  *)
(* workers, named presets kept as JSON files, preferences restored on the  *)
(* next start.  The model follows ScreenToneApp handler by handler.        *)
(*                                                                         *)
(* What the model takes from Qt: QComboBox.clear() leaves no current item; *)
(* the first addItem() on an empty dropdown makes item 0 current and emits *)
(* currentIndexChanged unless the signals are blocked; setCurrentText() on *)
(* a dropdown that is not editable selects the item with that text if      *)
(* there is one; QSlider.setValue() keeps the value in the slider's range; *)
(* QApplication.quit() is handled on the UI thread and closes the window   *)
(* if it is shown.                                                         *)
(*                                                                         *)
(* What the model assumes: the user reaches the controls once the two      *)
(* startup timers have run; writing a file succeeds (shutil.move may       *)
(* fail); the levels in the files are within the sliders' range; the       *)
(* dialog names a file in the presets directory.                           *)
(***************************************************************************)
EXTENDS Integers, Sequences, FiniteSets, Bags, TLC

\* ------------------------------------------------------------------ bounds
NumMonitors == 2
NumStems == 2
MaxThreads == 4
MaxStarts == 2
MaxBurst == 3
NumFiles == 3

\* ------------------------------------------------------- program constants
default_value == 50
SliderMinimum == 0
SliderMaximum == 100

\* Brightness values the displays, the user and the files range over.
Levels == {default_value, 60}

Monitors == 0 .. (NumMonitors - 1)

\* ------------------------------------------------------------------- names
\* A file name is its stem and its extension; str.endswith(".json") is a
\* test of the extension.  StemOrder lists the stems in string order.
StemOrder == <<"a", "b", "c", "d">>

Stems == {StemOrder[k] : k \in 1 .. NumStems}

JsonExt == ".json"

FileName(stem, ext) == [stem |-> stem, ext |-> ext]

PresetNames == {FileName(s, JsonExt) : s \in Stems}

\* What QFileDialog.getSaveFileName can return: with or without the suffix.
DialogNames == {FileName(s, e) : s \in Stems, e \in {JsonExt, ""}}

UnsavedPreset == FileName("UnsavedPreset", "")

\* QComboBox.currentText() of a dropdown with no current item.
NoText == FileName("", "")

Rank(name) == CHOOSE k \in 1 .. Len(StemOrder) : StemOrder[k] = name.stem

\* list.sort() on file names.
RECURSIVE SortNames(_)
SortNames(S) ==
  IF S = {} THEN << >>
  ELSE LET m == CHOOSE x \in S : \A y \in S : Rank(x) <= Rank(y)
       IN  <<m>> \o SortNames(S \ {m})

\* -------------------------------------------------------------------- JSON
\* A file's text is a sequence of tokens; json.dump writes them and
\* json.load parses them back, failing on anything that is not an array.
LBracket == <<"[", 0>>
RBracket == <<"]", 0>>
Comma == <<",", 0>>
Num(n) == <<"num", n>>

RECURSIVE DumpItems(_)
DumpItems(s) ==
  IF Len(s) = 0 THEN << >>
  ELSE IF Len(s) = 1 THEN <<Num(s[1])>>
  ELSE <<Num(s[1]), Comma>> \o DumpItems(Tail(s))

\* The levels written last display first.
json_dump_reversed(s) ==
  <<LBracket>> \o DumpItems([k \in 1 .. Len(s) |-> s[Len(s) + 1 - k]]) \o <<RBracket>>

json_dump(s) == <<LBracket>> \o DumpItems(s) \o <<RBracket>>

ParseError == [ok |-> FALSE, value |-> << >>]

json_load(toks) ==
  LET n == Len(toks)
      inner == SubSeq(toks, 2, n - 1)
      m == Len(inner)
  IN  IF n < 2 THEN ParseError
      ELSE IF toks[1] # LBracket \/ toks[n] # RBracket THEN ParseError
      ELSE IF m = 0 THEN [ok |-> TRUE, value |-> << >>]
      ELSE IF m % 2 = 0 THEN ParseError
      ELSE IF \A k \in 1 .. m :
                 IF k % 2 = 1 THEN inner[k][1] = "num" ELSE inner[k] = Comma
           THEN [ok |-> TRUE,
                 value |-> [j \in 1 .. ((m + 1) \div 2) |-> inner[2 * j - 1][2]]]
           ELSE ParseError

\* A file cut short while it was written: json.load raises on it.
TruncatedFile == <<LBracket, Num(default_value)>>

\* ------------------------------------------------------------------- files
AbsentPrefs ==
  [state |-> "absent", window_position |-> << >>, brightness_levels |-> << >>]

MalformedPrefs ==
  [state |-> "malformed", window_position |-> << >>, brightness_levels |-> << >>]

\* The object save_user_prefs dumps: two keys, each an array.
PrefsObject(pos, levels) ==
  [state |-> "object",
   window_position |-> json_dump(pos),
   brightness_levels |-> json_dump(levels)]

\* Writing a file into a directory (a function from names to texts).
WriteFile(dir, name, text) ==
  [n \in (DOMAIN dir) \cup {name} |-> IF n = name THEN text ELSE dir[n]]

RemoveFile(dir, name) == [n \in (DOMAIN dir) \ {name} |-> dir[n]]

EmptyDir == [n \in {} |-> << >>]

\* ------------------------------------------------------------------- state
VARIABLES
  pc,                        \* where the process is: constructed, monitors, ready, failed, exited
  monitor_sliders,           \* the sliders' values, display 0 first
  brightness_threads,        \* the workers in flight, a bag of worker descriptors
  brightness_update_timers,  \* the debounce timers still running
  is_preset_saved,
  force_exit,
  quit_requested,            \* QApplication.quit() was called and not yet handled
  visible,                   \* the window is shown
  window_position,
  presets_list,
  dropdown_items,            \* the QComboBox's items
  dropdown_index,            \* its currentIndex, -1 for none
  presets_dir,               \* file name -> text
  preset_restore_dir,
  prefs_file,
  hardware,                  \* display -> brightness, behind screen_brightness_control
  saved_levels,              \* history: preset name -> the slider values save_current_preset read
  closed,                    \* history: the slider values and position of the last closeEvent
  starts,                    \* history: how many times the application was started
  burst,                     \* history: display -> slider moves in its present or last debounce window
  after_delete               \* history: the last thing the user did was to delete a preset

vars ==
  <<pc, monitor_sliders, brightness_threads, brightness_update_timers,
    is_preset_saved, force_exit, quit_requested, visible, window_position,
    presets_list, dropdown_items, dropdown_index, presets_dir,
    preset_restore_dir, prefs_file, hardware, saved_levels, closed, starts,
    burst, after_delete>>

files == <<presets_dir, preset_restore_dir, prefs_file>>
dropdown == <<dropdown_items, dropdown_index>>
window == <<force_exit, quit_requested, visible, window_position>>

\* --------------------------------------------------------------- dropdown
\* QComboBox.currentText()
currentText(items, index) ==
  IF index >= 0 /\ index < Len(items) THEN items[index + 1] ELSE NoText

\* QComboBox.findText(): the first index holding the text, -1 for none.
findText(items, text) ==
  IF \E k \in 1 .. Len(items) : items[k] = text
  THEN (CHOOSE k \in 1 .. Len(items) :
          items[k] = text /\ \A j \in 1 .. (k - 1) : items[j] # text) - 1
  ELSE -1

\* QComboBox.setCurrentText() of a dropdown that is not editable.
setCurrentText(items, index, text) ==
  IF findText(items, text) >= 0 THEN findText(items, text) ELSE index

\* The sentinel added after the presets instead of before them.
SentinelItemsLast(list) == list \o <<UnsavedPreset>>

\* dropdown.clear(); addItem("UnsavedPreset"); addItem(preset) for each.
SentinelItems(list) == <<UnsavedPreset>> \o list

\* ---------------------------------------------------------------- workers
Worker(idx, value) == [monitor_index |-> idx, value |-> value, finished |-> FALSE]

OneWorker(w) == SetToBag({w})

\* What a handler changes besides the dropdown and the files.
UiState(sliders, threads, saved, calls) ==
  [sliders |-> sliders, threads |-> threads, saved |-> saved, issued |-> calls]

\* ScreenToneApp.set_brightness: a worker is created, listed and started.
set_brightness(u, idx, value) ==
  [u EXCEPT !.threads = @ (+) OneWorker(Worker(idx, value)),
            !.issued = Append(@, <<idx, value>>)]

\* QSlider.setValue() keeps the value within the slider's range.
setValue(value) ==
  IF value < SliderMinimum THEN SliderMinimum
  ELSE IF value > SliderMaximum THEN SliderMaximum
  ELSE value

\* The loop with its bound one short: the last display is never reached.
RECURSIVE ApplyValuesOneShort(_, _, _)
ApplyValuesOneShort(u, values, i) ==
  IF i >= Len(values) THEN u
  ELSE IF i < Len(u.sliders) - 1
       THEN ApplyValuesOneShort(
              [u EXCEPT !.sliders[i + 1] = values[i + 1],
                        !.threads = @ (+) OneWorker(Worker(i, values[i + 1]))],
              values, i + 1)
       ELSE ApplyValuesOneShort(u, values, i + 1)

\* for i, value in enumerate(values): if i < len(self.monitor_sliders): ...
RECURSIVE ApplyValues(_, _, _)
ApplyValues(u, values, i) ==
  IF i >= Len(values) THEN u
  ELSE IF i < Len(u.sliders)
       THEN ApplyValues(
              set_brightness([u EXCEPT !.sliders[i + 1] = setValue(values[i + 1])],
                             i, values[i + 1]),
              values, i + 1)
       ELSE ApplyValues(u, values, i + 1)

\* The flag set before the file is read, so also when the read fails.
apply_selected_preset_flagged(u, text, dir) ==
  IF text = NoText \/ text = UnsavedPreset THEN u
  ELSE IF text \notin DOMAIN dir THEN [u EXCEPT !.saved = TRUE]
  ELSE LET r == json_load(dir[text])
       IN  IF r.ok THEN [ApplyValues(u, r.value, 0) EXCEPT !.saved = TRUE]
           ELSE [u EXCEPT !.saved = TRUE]

\* ScreenToneApp.apply_selected_preset, the slot of currentIndexChanged.
apply_selected_preset(u, text, dir) ==
  IF text = NoText \/ text = UnsavedPreset THEN u
  ELSE IF text \notin DOMAIN dir THEN u
  ELSE LET r == json_load(dir[text])
       IN  IF r.ok THEN [ApplyValues(u, r.value, 0) EXCEPT !.saved = TRUE]
           ELSE u

\* os.listdir filtered by the suffix, then sorted.
ListPresets(dir) == SortNames({n \in DOMAIN dir : n.ext = JsonExt})

\* ScreenToneApp.load_presets.  The dropdown's signals are not blocked:
\* clear() leaves no current item (the slot returns at once), and the first
\* addItem() makes item 0 current, which runs apply_selected_preset on it.
load_presets(u, dir) ==
  LET list == ListPresets(dir)
  IN  [list |-> list,
       items |-> list,
       index |-> IF Len(list) > 0 THEN 0 ELSE -1,
       ui |-> IF Len(list) > 0 THEN apply_selected_preset(u, list[1], dir) ELSE u]

\* ScreenToneApp.reset_sliders_to_default
RECURSIVE ResetCalls(_, _)
ResetCalls(u, idx) ==
  IF idx >= Len(u.sliders) THEN u
  ELSE ResetCalls(set_brightness(u, idx, default_value), idx + 1)

reset_sliders_to_default(u) ==
  ResetCalls([u EXCEPT !.sliders = [k \in 1 .. Len(u.sliders) |-> setValue(default_value)]], 0)

Ui == UiState(monitor_sliders, brightness_threads, is_preset_saved, << >>)

\* The cap on the workers in flight.
Room(u) == BagCardinality(u.threads) <= MaxThreads

\* ------------------------------------------------------------------ window
ScreenSize == <<1920, 1080>>
WindowSize == <<400, 210>>

\* ScreenToneApp.position_bottom_right_with_margin
position_bottom_right_with_margin ==
  <<ScreenSize[1] - WindowSize[1] - 20, ScreenSize[2] - WindowSize[2] - 60>>

\* Where the user may drag the window.
Positions == {position_bottom_right_with_margin, <<100, 100>>}

\* ScreenToneApp.restore_window_position
restore_window_position(prefs) ==
  IF prefs.state = "object"
  THEN LET r == json_load(prefs.window_position)
       IN  IF r.ok /\ Len(r.value) = 2 THEN r.value
           ELSE position_bottom_right_with_margin
  ELSE position_bottom_right_with_margin

\* The levels asked of the displays instead of read from the sliders.
save_user_prefs_hardware ==
  PrefsObject(window_position, [k \in 1 .. Len(monitor_sliders) |-> hardware[k - 1]])

\* ScreenToneApp.save_user_prefs
save_user_prefs == PrefsObject(window_position, monitor_sliders)

\* ----------------------------------------------------------------- startup
\* ScreenToneApp.__init__: the state of a process that has just started,
\* over the files it finds.
Constructed ==
  /\ pc = "constructed"
  /\ monitor_sliders = << >>
  /\ brightness_threads = EmptyBag
  /\ brightness_update_timers = {}
  /\ is_preset_saved = TRUE
  /\ force_exit = FALSE
  /\ quit_requested = FALSE
  /\ visible = TRUE
  /\ window_position = restore_window_position(prefs_file)
  /\ presets_list = << >>
  /\ dropdown_items = << >>
  /\ dropdown_index = -1

\* ScreenToneApp.load_monitors, run by the first 50 ms timer.
load_monitors ==
  /\ pc = "constructed"
  /\ LET lp == load_presets(Ui, presets_dir)
     IN  /\ presets_list' = lp.list
         /\ dropdown_items' = lp.items
         /\ dropdown_index' = lp.index
         /\ is_preset_saved' = lp.ui.saved
         /\ brightness_threads' = lp.ui.threads
  /\ monitor_sliders' = [k \in 1 .. NumMonitors |-> setValue(hardware[k - 1])]
  /\ pc' = "monitors"
  /\ UNCHANGED <<brightness_update_timers, window, files, hardware, saved_levels, closed, starts, burst, after_delete>>

\* sbc.list_monitors() raises: the label shows the error and nothing else runs.
load_monitors_error ==
  /\ pc = "constructed"
  /\ pc' = "failed"
  /\ UNCHANGED <<monitor_sliders, brightness_threads, brightness_update_timers,
                 is_preset_saved, window, presets_list, dropdown, files, hardware,
                 saved_levels, closed, starts, burst, after_delete>>

\* The search of load_user_prefs: the first listed preset whose file parses
\* to the levels; 0 when there is none.
MatchesLevels(name, dir, levels) ==
  /\ name \in DOMAIN dir
  /\ json_load(dir[name]).ok
  /\ json_load(dir[name]).value = levels

\* The search without its break: the last match is the one kept.
matched_preset_last(list, dir, levels) ==
  IF \E k \in 1 .. Len(list) : MatchesLevels(list[k], dir, levels)
  THEN CHOOSE k \in 1 .. Len(list) :
         /\ MatchesLevels(list[k], dir, levels)
         /\ \A j \in (k + 1) .. Len(list) : ~MatchesLevels(list[j], dir, levels)
  ELSE 0

matched_preset(list, dir, levels) ==
  IF \E k \in 1 .. Len(list) : MatchesLevels(list[k], dir, levels)
  THEN CHOOSE k \in 1 .. Len(list) :
         /\ MatchesLevels(list[k], dir, levels)
         /\ \A j \in 1 .. (k - 1) : ~MatchesLevels(list[j], dir, levels)
  ELSE 0

\* ScreenToneApp.load_user_prefs, run by the second 50 ms timer.
load_user_prefs ==
  /\ pc = "monitors"
  /\ pc' = "ready"
  /\ LET r == json_load(prefs_file.brightness_levels)
     IN  IF prefs_file.state = "object" /\ r.ok
         THEN LET levels == r.value
                  m == matched_preset(presets_list, presets_dir, levels)
                  u == ApplyValues(Ui, levels, 0)
              IN  /\ Room(u)
                  /\ monitor_sliders' = u.sliders
                  /\ brightness_threads' = u.threads
                  /\ IF m > 0
                     THEN /\ dropdown_items' = dropdown_items
                          /\ dropdown_index' =
                               setCurrentText(dropdown_items, dropdown_index, presets_list[m])
                          /\ is_preset_saved' = TRUE
                     ELSE /\ dropdown_items' = SentinelItems(presets_list)
                          /\ dropdown_index' = 0
                          /\ is_preset_saved' = FALSE
         ELSE UNCHANGED <<monitor_sliders, brightness_threads, dropdown, is_preset_saved>>
  /\ UNCHANGED <<brightness_update_timers, window, presets_list, files, hardware,
                 saved_levels, closed, starts, burst, after_delete>>

\* ------------------------------------------------------------------ sliders
\* The user can reach the window's controls once startup is over and while
\* the window is shown.
Interactive == pc = "ready" /\ visible

\* A running debounce timer: the display and the value its lambda captured,
\* and whether self.brightness_update_timers[monitor_index] is this timer.
\* (A timer that has fired is not kept: stop() on it does nothing.)
Timer(idx, value) == [monitor_index |-> idx, value |-> value, current |-> TRUE]

\* The earlier timer left running.
StopNoTimer(idx) == brightness_update_timers

\* self.brightness_update_timers[monitor_index].stop(), when there is one
StopTimer(idx) ==
  {t \in brightness_update_timers : ~(t.monitor_index = idx /\ t.current)}

\* self.brightness_update_timers[monitor_index] = timer, after timer.start(50)
StartTimer(running, idx, value) ==
  {IF t.monitor_index = idx THEN [t EXCEPT !.current = FALSE] ELSE t : t \in running}
    \cup {Timer(idx, value)}

\* The moves of one debounce window are counted, at most MaxBurst of them:
\* a move made while the display's timer runs adds to the window, a move
\* made after it fired opens a new one.
CountMove(idx) ==
  LET pending == \E t \in brightness_update_timers : t.monitor_index = idx
  IN  /\ pending => burst[idx] < MaxBurst
      /\ burst' = [burst EXCEPT ![idx] = IF pending THEN @ + 1 ELSE 1]

\* ScreenToneApp.monitor_slider_changed: the slot of valueChanged, which
\* Qt emits when the user moves slider idx to another value.
monitor_slider_changed(idx, value) ==
  /\ Interactive
  /\ idx < Len(monitor_sliders)
  /\ value # monitor_sliders[idx + 1]
  /\ monitor_sliders' = [monitor_sliders EXCEPT ![idx + 1] = value]
  /\ IF is_preset_saved
     THEN /\ is_preset_saved' = FALSE
          /\ dropdown_items' = SentinelItems(presets_list)
          /\ dropdown_index' = 0
     ELSE UNCHANGED <<is_preset_saved, dropdown>>
  /\ brightness_update_timers' = StartTimer(StopTimer(idx), idx, value)
  /\ CountMove(idx)
  /\ after_delete' = FALSE
  /\ UNCHANGED <<pc, brightness_threads, window, presets_list, files, hardware,
                 saved_levels, closed, starts>>

\* A debounce timer fires: its lambda calls set_brightness(idx, val).
timeout(t) ==
  /\ pc = "ready"
  /\ t \in brightness_update_timers
  /\ LET u == set_brightness(Ui, t.monitor_index, t.value)
     IN  /\ Room(u)
         /\ brightness_threads' = u.threads
  /\ brightness_update_timers' = brightness_update_timers \ {t}
  /\ UNCHANGED <<pc, monitor_sliders, is_preset_saved, window, presets_list,
                 dropdown, files, hardware, saved_levels, closed, starts, burst, after_delete>>

\* ----------------------------------------------------------------- workers
\* BrightnessWorker.run on its own thread: the display is set, or the call
\* raises and is logged; update_complete is emitted either way.
BrightnessWorker_run(w, ok) ==
  /\ BagIn(w, brightness_threads)
  /\ ~w.finished
  /\ hardware' = IF ok THEN [hardware EXCEPT ![w.monitor_index] = w.value]
                 ELSE hardware
  /\ brightness_threads' =
       (brightness_threads (-) OneWorker(w)) (+) OneWorker([w EXCEPT !.finished = TRUE])
  /\ UNCHANGED <<pc, monitor_sliders, brightness_update_timers, is_preset_saved,
                 window, presets_list, dropdown, files, saved_levels, closed, starts, burst, after_delete>>

\* Every worker equal to the finished one taken off the list.
cleanup_thread_all(w) ==
  /\ BagIn(w, brightness_threads)
  /\ w.finished
  /\ brightness_threads' = [x \in BagToSet(brightness_threads) \ {w} |-> brightness_threads[x]]
  /\ UNCHANGED <<pc, monitor_sliders, brightness_update_timers, is_preset_saved,
                 window, presets_list, dropdown, files, hardware, saved_levels,
                 closed, starts, burst, after_delete>>

\* ScreenToneApp.cleanup_thread, the slot of a worker's update_complete.
cleanup_thread(w) ==
  /\ BagIn(w, brightness_threads)
  /\ w.finished
  /\ brightness_threads' = brightness_threads (-) OneWorker(w)
  /\ UNCHANGED <<pc, monitor_sliders, brightness_update_timers, is_preset_saved,
                 window, presets_list, dropdown, files, hardware, saved_levels,
                 closed, starts, burst, after_delete>>

\* ----------------------------------------------------------------- presets
\* The user picks another item of the dropdown: currentIndexChanged runs
\* apply_selected_preset.
currentIndexChanged(index) ==
  /\ Interactive
  /\ index \in 0 .. (Len(dropdown_items) - 1)
  /\ index # dropdown_index
  /\ dropdown_index' = index
  /\ after_delete' = FALSE
  /\ LET u == apply_selected_preset(Ui, currentText(dropdown_items, index), presets_dir)
     IN  /\ Room(u)
         /\ monitor_sliders' = u.sliders
         /\ brightness_threads' = u.threads
         /\ is_preset_saved' = u.saved
  /\ UNCHANGED <<pc, brightness_update_timers, window, presets_list, dropdown_items,
                 files, hardware, saved_levels, closed, starts, burst>>

\* The file removed instead of moved.
EraseFile(name) ==
  /\ presets_dir' = RemoveFile(presets_dir, name)
  /\ UNCHANGED preset_restore_dir

\* shutil.move(preset_path, restore_dir/preset_name): the file leaves the
\* presets directory and replaces any file of that name in the restore one.
MoveToRestore(name) ==
  /\ preset_restore_dir' = WriteFile(preset_restore_dir, name, presets_dir[name])
  /\ presets_dir' = RemoveFile(presets_dir, name)

\* ScreenToneApp.delete_selected_preset; moved is whether shutil.move
\* succeeded (a failure is swallowed by the bare except).
delete_selected_preset(moved) ==
  /\ Interactive
  /\ LET preset_name == currentText(dropdown_items, dropdown_index)
     IN  /\ preset_name # NoText
         /\ preset_name # UnsavedPreset
         /\ preset_name \in DOMAIN presets_dir
         /\ IF moved THEN MoveToRestore(preset_name)
            ELSE UNCHANGED <<presets_dir, preset_restore_dir>>
         /\ saved_levels' =
              IF moved THEN RemoveFile(saved_levels, preset_name) ELSE saved_levels
  /\ LET lp == load_presets(Ui, presets_dir')
         u == reset_sliders_to_default(lp.ui)
     IN  /\ Room(u)
         /\ presets_list' = lp.list
         /\ dropdown_items' = SentinelItems(lp.list)
         /\ dropdown_index' = 0
         /\ monitor_sliders' = u.sliders
         /\ brightness_threads' = u.threads
  /\ is_preset_saved' = FALSE
  /\ after_delete' = TRUE
  /\ UNCHANGED <<pc, brightness_update_timers, window, prefs_file, hardware, closed, starts, burst>>

\* The file save_current_preset writes for the name the dialog returned.
PresetPath(name) == IF name.ext = JsonExt THEN name ELSE FileName(name.stem, JsonExt)

\* ScreenToneApp.save_current_preset with the name the file dialog returned
\* (a cancelled dialog returns "" and nothing happens).
save_current_preset(preset_name) ==
  /\ Interactive
  /\ LET data == monitor_sliders
     IN  /\ presets_dir' = WriteFile(presets_dir, PresetPath(preset_name), json_dump(data))
         /\ saved_levels' = WriteFile(saved_levels, PresetPath(preset_name), data)
  /\ LET lp == load_presets([Ui EXCEPT !.saved = TRUE], presets_dir')
     IN  /\ Room(lp.ui)
         /\ presets_list' = lp.list
         /\ dropdown_items' = lp.items
         /\ dropdown_index' = setCurrentText(lp.items, lp.index, preset_name)
         /\ monitor_sliders' = lp.ui.sliders
         /\ brightness_threads' = lp.ui.threads
         /\ is_preset_saved' = lp.ui.saved
  /\ after_delete' = FALSE
  /\ UNCHANGED <<pc, brightness_update_timers, window, preset_restore_dir, prefs_file,
                 hardware, closed, starts, burst>>

\* --------------------------------------------------------------- lifecycle
NotClosed == << >>

\* The event accepted whatever force_exit holds.
closeEvent_accepted ==
  /\ prefs_file' = save_user_prefs
  /\ closed' = <<[levels |-> monitor_sliders, position |-> window_position]>>
  /\ visible' = FALSE
  /\ pc' = "exited"

\* ScreenToneApp.closeEvent: the preferences are written, then the event is
\* ignored and the window hidden, or accepted once force_exit is set (the
\* last window closing ends the application).
closeEvent ==
  /\ prefs_file' = save_user_prefs
  /\ closed' = <<[levels |-> monitor_sliders, position |-> window_position]>>
  /\ visible' = FALSE
  /\ pc' = IF force_exit THEN "exited" ELSE pc

\* The user clicks the window's close control.
close_clicked ==
  /\ pc \in {"ready", "failed"}
  /\ visible
  /\ closeEvent
  /\ UNCHANGED <<monitor_sliders, brightness_threads, brightness_update_timers,
                 is_preset_saved, force_exit, quit_requested, window_position,
                 presets_list, dropdown, presets_dir, preset_restore_dir, hardware,
                 saved_levels, starts, burst, after_delete>>

\* The user drags the window.
move_window(position) ==
  /\ Interactive
  /\ position # window_position
  /\ window_position' = position
  /\ UNCHANGED <<pc, monitor_sliders, brightness_threads, brightness_update_timers,
                 is_preset_saved, force_exit, quit_requested, visible, presets_list,
                 dropdown, files, hardware, saved_levels, closed, starts, burst, after_delete>>

\* create_pystray_icon.on_show, the tray menu's Show.  pystray runs the
\* callback on its own thread (init_pystray), so app.show() is a widget
\* call made off the UI thread: the window is shown, or the process dies.
on_show(shown) ==
  /\ pc \in {"ready", "failed"}
  /\ ~visible
  /\ ~quit_requested
  /\ IF shown
     THEN visible' = TRUE /\ pc' = pc
     ELSE visible' = FALSE /\ pc' = "exited"
  /\ UNCHANGED <<monitor_sliders, brightness_threads, brightness_update_timers,
                 is_preset_saved, force_exit, quit_requested, window_position,
                 presets_list, dropdown, files, hardware, saved_levels, closed, starts,
                 burst, after_delete>>

\* create_pystray_icon.on_quit, the tray menu's Exit, statement by statement
\* on the tray's thread.  app.force_exit = True:
on_quit_flag ==
  /\ pc \in {"ready", "failed"}
  /\ ~force_exit
  /\ force_exit' = TRUE
  /\ UNCHANGED <<pc, monitor_sliders, brightness_threads, brightness_update_timers,
                 is_preset_saved, quit_requested, visible, window_position, presets_list,
                 dropdown, files, hardware, saved_levels, closed, starts, burst,
                 after_delete>>

\* QApplication.quit(): the quit is posted to the UI thread.
on_quit_request ==
  /\ pc \in {"ready", "failed"}
  /\ force_exit
  /\ ~quit_requested
  /\ quit_requested' = TRUE
  /\ UNCHANGED <<pc, monitor_sliders, brightness_threads, brightness_update_timers,
                 is_preset_saved, force_exit, visible, window_position, presets_list,
                 dropdown, files, hardware, saved_levels, closed, starts, burst,
                 after_delete>>

on_quit == on_quit_flag \/ on_quit_request

\* The UI thread handles the quit: a window that is shown gets its
\* closeEvent, a hidden one does not, and the event loop ends.
quit_event ==
  /\ quit_requested
  /\ pc \in {"ready", "failed"}
  /\ IF visible
     THEN closeEvent
     ELSE /\ pc' = "exited"
          /\ UNCHANGED <<prefs_file, closed, visible>>
  /\ UNCHANGED <<monitor_sliders, brightness_threads, brightness_update_timers,
                 is_preset_saved, force_exit, quit_requested, window_position,
                 presets_list, dropdown, presets_dir, preset_restore_dir, hardware,
                 saved_levels, starts, burst, after_delete>>

\* While the application is not running, the displays are set by other
\* means (their own buttons, another program): the next start reads them.
displays_changed(levels) ==
  /\ pc = "exited"
  /\ levels # hardware
  /\ hardware' = levels
  /\ UNCHANGED <<pc, monitor_sliders, brightness_threads, brightness_update_timers,
                 is_preset_saved, window, presets_list, dropdown, files, saved_levels,
                 closed, starts, burst, after_delete>>

\* The application is started again: a new process over the same files and
\* the same displays.
restart ==
  /\ pc = "exited"
  /\ pc' = "constructed"
  /\ monitor_sliders' = << >>
  /\ brightness_threads' = EmptyBag
  /\ brightness_update_timers' = {}
  /\ is_preset_saved' = TRUE
  /\ force_exit' = FALSE
  /\ quit_requested' = FALSE
  /\ visible' = TRUE
  /\ window_position' = restore_window_position(prefs_file)
  /\ presets_list' = << >>
  /\ dropdown_items' = << >>
  /\ dropdown_index' = -1
  /\ starts < MaxStarts
  /\ starts' = starts + 1
  /\ burst' = [m \in Monitors |-> 0]
  /\ after_delete' = FALSE
  /\ UNCHANGED <<files, hardware, saved_levels, closed>>

\* ----------------------------------------------------------- specifications
LevelSeqs(n) == [1 .. n -> Levels]

Dirs(names, texts) == UNION {[S -> texts] : S \in SUBSET names}

\* What a process does not keep: the files, the displays and the history.
Installed(dirs, prefs) ==
  /\ hardware \in [Monitors -> Levels]
  /\ presets_dir \in dirs
  /\ preset_restore_dir = EmptyDir
  /\ prefs_file \in prefs
  /\ saved_levels = EmptyDir
  /\ closed = NotClosed
  /\ starts = 1
  /\ burst = [m \in Monitors |-> 0]
  /\ after_delete = FALSE

\* A first start after installation: no preferences yet; the presets
\* directory may hold files from elsewhere, one of them cut short.
ShippedTexts == {json_dump([k \in 1 .. NumMonitors |-> 60]), TruncatedFile}

Init ==
  /\ Installed(Dirs(PresetNames, ShippedTexts), {AbsentPrefs})
  /\ Constructed

\* The whole program: every handler may run whenever its guard holds.
Next ==
  \/ load_monitors
  \/ load_monitors_error
  \/ load_user_prefs
  \/ \E idx \in Monitors, value \in Levels : monitor_slider_changed(idx, value)
  \/ \E t \in brightness_update_timers : timeout(t)
  \/ \E w \in BagToSet(brightness_threads), ok \in BOOLEAN : BrightnessWorker_run(w, ok)
  \/ \E w \in BagToSet(brightness_threads) : cleanup_thread(w)
  \/ \E index \in 0 .. NumStems : currentIndexChanged(index)
  \/ \E moved \in BOOLEAN : delete_selected_preset(moved)
  \/ \E name \in DialogNames : save_current_preset(name)
  \/ close_clicked
  \/ \E position \in Positions : move_window(position)
  \/ \E shown \in BOOLEAN : on_show(shown)
  \/ on_quit_flag
  \/ on_quit_request
  \/ quit_event
  \/ \E levels \in [Monitors -> Levels] : displays_changed(levels)
  \/ restart

Spec == Init /\ [][Next]_vars

\* Startup alone, over every set of files it may find.
PresetTexts ==
  {json_dump(s) : s \in LevelSeqs(NumMonitors) \cup LevelSeqs(NumMonitors - 1)}
    \cup {TruncatedFile}

PrefsFiles ==
  {AbsentPrefs, MalformedPrefs}
    \cup {PrefsObject(position_bottom_right_with_margin, s) :
            s \in UNION {LevelSeqs(n) : n \in 0 .. (NumMonitors + 1)}}

\* The directory may hold NumFiles presets and a file that is no preset.
StartupNames == {FileName(StemOrder[k], JsonExt) : k \in 1 .. NumFiles}

OtherFile == FileName(StemOrder[1], ".txt")

StartupDirs ==
  {d \in Dirs(StartupNames \cup {OtherFile}, PresetTexts) :
     OtherFile \in DOMAIN d => d[OtherFile] = json_dump([k \in 1 .. NumMonitors |-> 60])}

InitStartup ==
  /\ Installed(StartupDirs, PrefsFiles)
  /\ Constructed

NextStartup ==
  \/ load_monitors
  \/ load_monitors_error
  \/ load_user_prefs

SpecStartup == InitStartup /\ [][NextStartup]_vars

\* The brightness path: slider moves, their timers and the workers, in every
\* interleaving, with no preset on disk.
InitSliders ==
  /\ Installed({EmptyDir}, {AbsentPrefs})
  /\ Constructed

NextSliders ==
  \/ load_monitors
  \/ load_monitors_error
  \/ load_user_prefs
  \/ \E idx \in Monitors, value \in Levels : monitor_slider_changed(idx, value)
  \/ \E t \in brightness_update_timers : timeout(t)
  \/ \E w \in BagToSet(brightness_threads), ok \in BOOLEAN : BrightnessWorker_run(w, ok)
  \/ \E w \in BagToSet(brightness_threads) : cleanup_thread(w)

SpecSliders == InitSliders /\ [][NextSliders]_vars

\* A started QThread runs and its queued signal is delivered by the event
\* loop, and a started QTimer fires: each gets its turn.
FairSliders ==
  /\ SpecSliders
  /\ WF_vars(\E t \in brightness_update_timers : timeout(t))
  /\ WF_vars(\E w \in BagToSet(brightness_threads), ok \in BOOLEAN : BrightnessWorker_run(w, ok))
  /\ WF_vars(\E w \in BagToSet(brightness_threads) : cleanup_thread(w))

\* Nothing of the brightness path is pending: no timer runs, no worker is
\* in flight.  Workers and timers write brightness_threads,
\* brightness_update_timers and hardware only, which no handler of the
\* window reads, so a user who waits for them sees the same sliders,
\* dropdown and files as one who does not.
Quiet == brightness_threads = EmptyBag /\ brightness_update_timers = {}

\* The presets: the user moves sliders, picks, saves and deletes presets,
\* each time after the brightness path has gone quiet.  The brightness
\* calls succeed here; SpecSliders has the failing ones.
NextPresets ==
  \/ load_monitors
  \/ load_monitors_error
  \/ load_user_prefs
  \/ \E t \in brightness_update_timers : timeout(t)
  \/ \E w \in BagToSet(brightness_threads) : BrightnessWorker_run(w, TRUE)
  \/ \E w \in BagToSet(brightness_threads) : cleanup_thread(w)
  \/ Quiet /\ \E idx \in Monitors, value \in Levels : monitor_slider_changed(idx, value)
  \/ Quiet /\ \E index \in 0 .. NumStems : currentIndexChanged(index)
  \/ Quiet /\ \E moved \in BOOLEAN : delete_selected_preset(moved)
  \/ Quiet /\ \E name \in DialogNames : save_current_preset(name)

SpecPresets == Init /\ [][NextPresets]_vars

\* The life of the window: closing, hiding, showing, quitting and starting
\* again, around slider moves and presets kept under one name.  The
\* brightness calls and the tray's show succeed here; SpecSliders and
\* SpecTray have the other outcomes.
OneName == FileName(StemOrder[1], JsonExt)

NextLifecycle ==
  \/ load_monitors
  \/ load_monitors_error
  \/ load_user_prefs
  \/ \E t \in brightness_update_timers : timeout(t)
  \/ \E w \in BagToSet(brightness_threads) : BrightnessWorker_run(w, TRUE)
  \/ \E w \in BagToSet(brightness_threads) : cleanup_thread(w)
  \/ Quiet /\ \E idx \in Monitors, value \in Levels : monitor_slider_changed(idx, value)
  \/ Quiet /\ \E index \in 0 .. NumStems : currentIndexChanged(index)
  \/ Quiet /\ \E moved \in BOOLEAN : delete_selected_preset(moved)
  \/ Quiet /\ save_current_preset(OneName)
  \/ Quiet /\ close_clicked
  \/ Quiet /\ \E position \in Positions : move_window(position)
  \/ Quiet /\ on_show(TRUE)
  \/ Quiet /\ on_quit_flag
  \/ Quiet /\ on_quit_request
  \/ Quiet /\ quit_event
  \/ \E levels \in [Monitors -> Levels] : displays_changed(levels)
  \/ restart

SpecLifecycle == InitSliders /\ [][NextLifecycle]_vars

\* The brightness path against the presets: the user moves sliders,
\* picks and deletes presets while debounce timers run, each time after
\* the workers in flight have completed.
NoWorker == brightness_threads = EmptyBag

NextRace ==
  \/ load_monitors
  \/ load_monitors_error
  \/ load_user_prefs
  \/ \E t \in brightness_update_timers : timeout(t)
  \/ \E w \in BagToSet(brightness_threads) : BrightnessWorker_run(w, TRUE)
  \/ \E w \in BagToSet(brightness_threads) : cleanup_thread(w)
  \/ NoWorker /\ \E idx \in Monitors, value \in Levels : monitor_slider_changed(idx, value)
  \/ NoWorker /\ \E index \in 0 .. NumStems : currentIndexChanged(index)
  \/ NoWorker /\ \E moved \in BOOLEAN : delete_selected_preset(moved)

SpecRace == Init /\ [][NextRace]_vars

\* The window and the tray alone: the two threads' steps in every
\* interleaving, with both outcomes of a show made off the UI thread.
NextTray ==
  \/ load_monitors
  \/ load_monitors_error
  \/ load_user_prefs
  \/ close_clicked
  \/ \E position \in Positions : move_window(position)
  \/ \E shown \in BOOLEAN : on_show(shown)
  \/ on_quit_flag
  \/ on_quit_request
  \/ quit_event
  \/ \E levels \in [Monitors -> Levels] : displays_changed(levels)
  \/ restart

SpecTray == InitSliders /\ [][NextTray]_vars

\* ------------------------------------------------------ startup properties
\* What load_user_prefs reads from the preferences file, when it can.
PrefsLevels == json_load(prefs_file.brightness_levels)

PrefsRead == prefs_file.state = "object" /\ PrefsLevels.ok

\* The presets on disk whose content equals the preference levels.
Matching ==
  {n \in DOMAIN presets_dir :
     n.ext = JsonExt /\ MatchesLevels(n, presets_dir, PrefsLevels.value)}

FirstMatching == CHOOSE n \in Matching : \A o \in Matching : Rank(n) <= Rank(o)

Selected == currentText(dropdown_items, dropdown_index)

WorkersFor(i) == {w \in BagToSet(brightness_threads) : w.monitor_index = i}

\* C7: once startup is over, if one or more presets equal the preference
\* levels, the dropdown's current item is the one of them that sorts first,
\* whatever unparsable presets sort before it, and the selection counts as
\* a saved preset.
C7_StartupTieBreak ==
  (pc = "ready" /\ PrefsRead /\ Matching # {}) =>
    /\ Selected = FirstMatching
    /\ is_preset_saved

\* C7: two presets match, an unparsable one sorts before both, and the
\* first of the two is selected.
C7_Witness ==
  /\ pc = "ready"
  /\ PrefsRead
  /\ Cardinality(Matching) >= 2
  /\ \E n \in DOMAIN presets_dir :
       /\ n.ext = JsonExt
       /\ Rank(n) < Rank(FirstMatching)
       /\ ~json_load(presets_dir[n]).ok
  /\ Selected = FirstMatching

\* C8: once startup is over, if presets exist and none equals the
\* preference levels (the preferences file being absent or malformed
\* included), the dropdown's current item is the sentinel and no preset
\* counts as active.
C8_StartupNoMatch ==
  (pc = "ready" /\ ListPresets(presets_dir) # << >> /\ (~PrefsRead \/ Matching = {})) =>
    /\ Selected = UnsavedPreset
    /\ ~is_preset_saved

\* C9: once startup is over with no preset on disk, the preset list is
\* empty and the dropdown holds the sentinel and nothing else, with or
\* without a preferences file.
C9_EmptyDirectory ==
  (pc = "ready" /\ ListPresets(presets_dir) = << >>) =>
    /\ presets_list = << >>
    /\ dropdown_items = <<UnsavedPreset>>

\* C10: once startup is over with preference levels of length M, each
\* display below M has its slider at its level and one worker carrying that
\* level, each display from M on has its slider at the hardware's value and
\* no worker, and no worker is for a display that does not exist.
C10_OverlappingPrefix ==
  (pc = "ready" /\ PrefsRead) =>
    LET levels == PrefsLevels.value
    IN  /\ \A i \in Monitors :
             IF i < Len(levels)
             THEN /\ monitor_sliders[i + 1] = levels[i + 1]
                  /\ WorkersFor(i) = {Worker(i, levels[i + 1])}
                  /\ CopiesIn(Worker(i, levels[i + 1]), brightness_threads) = 1
             ELSE /\ monitor_sliders[i + 1] = hardware[i]
                  /\ WorkersFor(i) = {}
        /\ \A w \in BagToSet(brightness_threads) : w.monitor_index \in Monitors

\* C10: the preferences hold one level more than there are displays, the
\* first differs from what the hardware reported, and startup is over.
C10_Witness ==
  /\ pc = "ready"
  /\ PrefsRead
  /\ Len(PrefsLevels.value) = NumMonitors + 1
  /\ PrefsLevels.value[1] # hardware[0]
  /\ monitor_sliders[1] = PrefsLevels.value[1]
  /\ BagCardinality(brightness_threads) = NumMonitors

\* ------------------------------------------------------ debounce property
\* The brightness-set calls issued for display i and not yet cleaned up.
CallsFor(threads, i) ==
  LET ws == {w \in BagToSet(threads) : w.monitor_index = i}
      RECURSIVE Sum(_)
      Sum(S) == IF S = {} THEN 0
                ELSE LET w == CHOOSE x \in S : TRUE
                     IN  CopiesIn(w, threads) + Sum(S \ {w})
  IN  Sum(ws)

TimerRuns(timers, i) == \E t \in timers : t.monitor_index = i

\* C1: a debounce window of display i is open while a timer of i runs.  In
\* every step, if the window closes (a timer of i ran before and none runs
\* after), exactly one worker is added, for display i and with the value of
\* the last move, which the slider holds; in every other step no call for
\* display i is issued, however many moves restarted the timer.
C1_Debounce ==
  [][\A i \in Monitors :
       IF TimerRuns(brightness_update_timers, i) /\ ~TimerRuns(brightness_update_timers', i)
       THEN brightness_threads' =
              brightness_threads (+) OneWorker(Worker(i, monitor_sliders[i + 1]))
       ELSE CallsFor(brightness_threads', i) <= CallsFor(brightness_threads, i)]_vars

\* C1: MaxBurst moves of slider 0 fell in one window, the window has closed
\* and one call for display 0 is in flight, with the slider's value.
C1_Witness ==
  /\ burst[0] = MaxBurst
  /\ ~TimerRuns(brightness_update_timers, 0)
  /\ CallsFor(brightness_threads, 0) = 1
  /\ BagIn(Worker(0, monitor_sliders[1]), brightness_threads)

\* -------------------------------------------------------- preset properties
\* The dropdown shows a preset whose stored levels are the sliders' values.
MatchedSelection ==
  /\ Selected \in DOMAIN presets_dir
  /\ json_load(presets_dir[Selected]) = [ok |-> TRUE, value |-> monitor_sliders]

\* C2: every preset saved by the application parses back to exactly the
\* slider values save_current_preset read, and when the user picks such a
\* preset in the dropdown with as many displays as it has levels, the
\* sliders take exactly those values, in order.
C2_RoundTrip ==
  [][/\ \A n \in DOMAIN saved_levels' :
          /\ n \in DOMAIN presets_dir'
          /\ json_load(presets_dir'[n]) = [ok |-> TRUE, value |-> saved_levels'[n]]
     /\ \A index \in 0 .. NumStems :
          currentIndexChanged(index) =>
            LET text == currentText(dropdown_items, index)
            IN  (text \in DOMAIN saved_levels
                   /\ Len(saved_levels[text]) = Len(monitor_sliders))
                  => monitor_sliders' = saved_levels[text]]_vars

\* C2: the second preset was saved with two different levels and has just
\* been picked: the sliders hold its levels, its calls are in flight, and
\* the first preset holds other levels.
C2_Witness ==
  LET first == FileName(StemOrder[1], JsonExt)
      second == FileName(StemOrder[2], JsonExt)
  IN  /\ pc = "ready"
      /\ Selected = second
      /\ second \in DOMAIN saved_levels
      /\ saved_levels[second][1] # saved_levels[second][2]
      /\ monitor_sliders = saved_levels[second]
      /\ first \in DOMAIN presets_dir
      /\ json_load(presets_dir[first]).ok
      /\ json_load(presets_dir[first]).value # monitor_sliders
      /\ brightness_threads =
           OneWorker(Worker(0, monitor_sliders[1])) (+) OneWorker(Worker(1, monitor_sliders[2]))

\* C4: a file that leaves the presets directory is, after the same step, in
\* the restore directory under the same name with the same content, and its
\* name is neither in the preset list nor in the dropdown; a delete whose
\* move succeeds makes the selected preset leave.
C4_DeleteMovesToRestore ==
  [][/\ \A n \in (DOMAIN presets_dir) \ (DOMAIN presets_dir') :
          /\ n \in DOMAIN preset_restore_dir'
          /\ preset_restore_dir'[n] = presets_dir[n]
          /\ \A k \in 1 .. Len(presets_list') : presets_list'[k] # n
          /\ \A k \in 1 .. Len(dropdown_items') : dropdown_items'[k] # n
     /\ delete_selected_preset(TRUE) => Selected \notin DOMAIN presets_dir']_vars

\* C4: a preset saved by the application has been deleted: it is in the
\* restore directory with the levels it was saved with, and no longer in
\* the presets directory, the list or the dropdown.
C4_Witness ==
  \E n \in DOMAIN preset_restore_dir :
    /\ n \notin DOMAIN presets_dir
    /\ json_load(preset_restore_dir[n]).ok
    /\ json_load(preset_restore_dir[n]).value[1] # json_load(preset_restore_dir[n]).value[2]
    /\ \A k \in 1 .. Len(dropdown_items) : dropdown_items[k] # n
    /\ \A k \in 1 .. Len(presets_list) : presets_list[k] # n
    /\ Selected = UnsavedPreset

\* C5: in every step of save_current_preset, afterwards the dropdown's
\* current item is the saved preset's name and the sliders hold the levels
\* stored in that preset.
C5_SaveEndsMatched ==
  [][\A name \in DialogNames :
       save_current_preset(name) =>
         /\ currentText(dropdown_items', dropdown_index') = PresetPath(name)
         /\ json_load(presets_dir'[PresetPath(name)]) =
              [ok |-> TRUE, value |-> monitor_sliders']]_vars

\* C6: in every step in which a slider's value changes by a user move while
\* a preset counts as active (the flag is set, or the dropdown shows a
\* preset equal to the sliders), afterwards the dropdown holds the sentinel
\* followed by the presets on disk in sorted order, the sentinel is
\* current, no preset is active, no call was issued and no other slider
\* changed.
C6_MoveDeselects ==
  [][\A idx \in Monitors, value \in Levels :
       (monitor_slider_changed(idx, value) /\ (is_preset_saved \/ MatchedSelection)) =>
         /\ dropdown_items' = <<UnsavedPreset>> \o ListPresets(presets_dir)
         /\ dropdown_index' = 0
         /\ ~is_preset_saved'
         /\ brightness_threads' = brightness_threads
         /\ \A k \in 1 .. Len(monitor_sliders) :
              k # idx + 1 => monitor_sliders'[k] = monitor_sliders[k]]_vars

\* C6: the first move after a start that left a preset selected: the
\* sentinel is current, before two presets, the timer of the move runs and
\* no call is in flight.
C6_Witness ==
  /\ pc = "ready"
  /\ prefs_file = AbsentPrefs
  /\ preset_restore_dir = EmptyDir
  /\ saved_levels = EmptyDir
  /\ Selected = UnsavedPreset
  /\ Len(dropdown_items) = 1 + NumStems
  /\ ~is_preset_saved
  /\ brightness_update_timers # {}
  /\ brightness_threads = EmptyBag

\* ----------------------------------------------------- lifecycle properties
\* C3: in every step that closes the window (hide to tray or exit), the
\* preferences file written parses to the sliders' levels and the window's
\* position; and in every step that completes a startup after a close made
\* with as many sliders as there are displays now, the sliders take the
\* levels they held at that close.
C3_RestartPersistence ==
  [][/\ (visible /\ ~visible') =>
          /\ prefs_file'.state = "object"
          /\ json_load(prefs_file'.brightness_levels) = [ok |-> TRUE, value |-> monitor_sliders]
          /\ json_load(prefs_file'.window_position) = [ok |-> TRUE, value |-> window_position]
     /\ (pc = "monitors" /\ pc' = "ready" /\ closed # NotClosed
           /\ Len(closed[1].levels) = Len(monitor_sliders)) =>
          monitor_sliders' = closed[1].levels]_vars

\* C3: a second start has completed: the sliders hold the levels of the
\* close, which differ from what a display reported, and the calls that
\* push them are still in flight.
C3_Witness ==
  /\ starts >= 2
  /\ pc = "ready"
  /\ closed # NotClosed
  /\ monitor_sliders = closed[1].levels
  /\ \E i \in Monitors : monitor_sliders[i + 1] # hardware[i]
  /\ BagCardinality(brightness_threads) = NumMonitors
  /\ \A w \in BagToSet(brightness_threads) : ~w.finished

\* --------------------------------------------------------- delete properties
\* C11: while the last thing the user did was to delete a preset, every
\* slider reads the default, the sentinel is current and no preset is
\* active; and once the timers and workers are done, every display is at
\* the default, whichever presets remain.
C11_DeleteResets ==
  after_delete =>
    /\ \A k \in 1 .. Len(monitor_sliders) : monitor_sliders[k] = default_value
    /\ Selected = UnsavedPreset
    /\ ~is_preset_saved
    /\ Quiet => \A i \in Monitors : hardware[i] = default_value

\* ----------------------------------------------------------- tray properties
\* C12: in every step that closes the shown window, the application keeps
\* running with the window hidden if force_exit is not set, and ends if it
\* is; the application never ends from a shown window without force_exit;
\* and when the quit is requested, force_exit was set before that step.
C12_CloseHides ==
  [][/\ (visible /\ ~visible') =>
          IF force_exit THEN pc' = "exited" ELSE pc' = pc /\ pc # "exited"
     /\ (visible /\ pc # "exited" /\ pc' = "exited") => force_exit
     /\ (~quit_requested /\ quit_requested') => force_exit]_vars

\* C12: the window was closed with force_exit not set: it is hidden, the
\* preferences were written and the application runs.
C12_Witness ==
  /\ pc = "ready"
  /\ ~visible
  /\ ~force_exit
  /\ closed # NotClosed
  /\ prefs_file.state = "object"

\* ------------------------------------------------------- failure properties
\* C13: in every step in which the user picks a preset whose file does not
\* parse, the handler returns with the sliders, the workers in flight and
\* is_preset_saved as they were; and applying a preset whose file is
\* missing changes nothing either.
C13_FailedLoadUntouched ==
  [][/\ \A index \in 0 .. NumStems :
          LET text == currentText(dropdown_items, index)
          IN  (currentIndexChanged(index)
                 /\ text \in DOMAIN presets_dir
                 /\ ~json_load(presets_dir[text]).ok)
                => /\ UNCHANGED <<monitor_sliders, brightness_threads, is_preset_saved>>
                   /\ pc' = "ready"
     /\ \A n \in PresetNames \ DOMAIN presets_dir :
          apply_selected_preset(Ui, n, presets_dir) = Ui]_vars

\* C13: a preset whose file does not parse was picked from the dropdown
\* while no preset was active: it is the current item and still no preset
\* is active, and no call is in flight.
C13_Witness ==
  /\ pc = "ready"
  /\ Selected \in DOMAIN presets_dir
  /\ ~json_load(presets_dir[Selected]).ok
  /\ dropdown_items[1] = UnsavedPreset
  /\ ~is_preset_saved
  /\ brightness_threads = EmptyBag

\* C14: in every step of delete_selected_preset in which the move fails,
\* the file stays in the presets directory, the preset stays listed, and
\* the sliders, the workers in flight, the dropdown and is_preset_saved are
\* as before.
C14_FailedDeleteIgnored ==
  [][delete_selected_preset(FALSE) =>
       /\ UNCHANGED <<presets_dir, preset_restore_dir>>
       /\ \E k \in 1 .. Len(presets_list') : presets_list'[k] = Selected
       /\ UNCHANGED <<monitor_sliders, brightness_threads, dropdown_items,
                      dropdown_index, is_preset_saved>>]_vars

\* ------------------------------------------------------ selection properties
\* C15: once startup is over, if the dropdown's current item is a preset
\* whose file parses and is_preset_saved is set, every slider the preset
\* covers holds the preset's level.
C15_MatchedMeansMatch ==
  (pc = "ready" /\ is_preset_saved /\ Selected \in DOMAIN presets_dir
     /\ json_load(presets_dir[Selected]).ok) =>
    LET values == json_load(presets_dir[Selected]).value
    IN  \A k \in 1 .. Len(monitor_sliders) :
          k <= Len(values) => monitor_sliders[k] = values[k]

\* ---------------------------------------------------------- order properties
\* C16: the handlers that set a slider themselves issue the call for the
\* value they set in the same step, so the order of a display's calls is at
\* stake when a timer fires: in every such step the call carries the value
\* the slider holds, no newer value having been set and issued meanwhile.
C16_IssueOrder ==
  [][\A t \in brightness_update_timers :
       timeout(t) => t.value = monitor_sliders[t.monitor_index + 1]]_vars

\* --------------------------------------------------------- worker properties
\* A call is dispatched: a worker joins the list.
Dispatch == BagCardinality(brightness_threads') > BagCardinality(brightness_threads)

\* C17: in every step, a worker that joins the list has not started, and it
\* joins in a step of the UI thread, which leaves the displays alone; a step
\* that shortens the list takes off exactly one worker, a finished one; a
\* worker's own step, succeeding or failing, marks it finished and leaves
\* it listed.  And if from some point on no call is dispatched, from some
\* point on the list is empty.
C17_InFlightList ==
  /\ [][/\ Dispatch =>
             /\ brightness_threads \sqsubseteq brightness_threads'
             /\ \A w \in BagToSet(brightness_threads') :
                  CopiesIn(w, brightness_threads') > CopiesIn(w, brightness_threads)
                    => ~w.finished
             /\ hardware' = hardware
        /\ BagCardinality(brightness_threads') < BagCardinality(brightness_threads) =>
             \E w \in BagToSet(brightness_threads) :
               /\ w.finished
               /\ brightness_threads' = brightness_threads (-) OneWorker(w)
        /\ (BagCardinality(brightness_threads') = BagCardinality(brightness_threads)
              /\ brightness_threads' # brightness_threads) =>
             \E w \in BagToSet(brightness_threads) :
               /\ ~w.finished
               /\ brightness_threads' =
                    (brightness_threads (-) OneWorker(w))
                      (+) OneWorker([w EXCEPT !.finished = TRUE])
        /\ hardware' # hardware =>
             BagCardinality(brightness_threads') = BagCardinality(brightness_threads)]_vars
  /\ ([]<><<Dispatch>>_vars) \/ <>[](brightness_threads = EmptyBag)

\* C17: calls were dispatched for every display and all their workers are
\* off the list again, no timer runs, and no display shows its slider's
\* value: calls failed, or were overtaken by older ones.
C17_Witness ==
  /\ pc = "ready"
  /\ brightness_threads = EmptyBag
  /\ brightness_update_timers = {}
  /\ \A i \in Monitors : burst[i] >= 1 /\ hardware[i] # monitor_sliders[i + 1]

\* ----------------------------------------------------------- tray properties
\* C18: what the tray menu asks for runs as one handler of the UI thread:
\* Exit's write of force_exit and its quit request happen in one step, with
\* no handler of the UI thread seeing the flag set and no quit requested,
\* and Show never ends the process.
C18_TrayMarshalled ==
  [][/\ (~force_exit /\ force_exit') => quit_requested'
     /\ (force_exit /\ ~quit_requested /\ pc # "exited") => quit_requested'
     /\ (~visible /\ pc # "exited" /\ pc' = "exited") => quit_requested]_vars

\* ------------------------------------------------------ quiescence properties
\* C19: whenever the program runs with no debounce timer pending and no
\* worker in flight, every display shows the value of its slider (no
\* brightness call fails in the specification this is checked under).
C19_QuiescentConsistency ==
  (pc = "ready" /\ Quiet /\ Len(monitor_sliders) = NumMonitors) =>
    \A i \in Monitors : hardware[i] = monitor_sliders[i + 1]

\* C20: a step of save_current_preset leaves every slider where it was and
\* puts no worker on the list, and a step of delete_selected_preset puts
\* exactly one worker per display on the list, each with default_value.
C20_ReloadNoSideEffect ==
  [][/\ (\E name \in DialogNames : save_current_preset(name)) =>
          /\ monitor_sliders' = monitor_sliders
          /\ brightness_threads' = brightness_threads
     /\ (\E moved \in BOOLEAN : delete_selected_preset(moved)) =>
          brightness_threads' = reset_sliders_to_default(Ui).threads]_vars

====
